---- MODULE Spec2Model ----
(***************************************************************************)
(* Model of the mm-map Webflow CMS glue:                                   *)
(*   - src/src/WebflowCMS.js: the browser client (TTL cache, fetchAllPages,*)
(*     fetchMonuments / fetchEcosystem and the normalisation helpers);     *)
(*   - src/proxy-fix/src/lib/fetchAllCollectionItems.ts: the proxy's       *)
(*     paginator;                                                          *)
(*   - src/proxy-fix/src/pages/api/{monuments,ecosystem}.json.ts: the      *)
(*     proxy's route handlers.                                             *)
(*                                                                         *)
(* JavaScript values are tagged records (field t), strings are sequences   *)
(* of one-character strings, numbers are decimals m / 10^e.                *)
(***************************************************************************)
EXTENDS Integers, Sequences, FiniteSets, TLC

\* ------------------------------------------------------------------------
\* Bounds of the model
\* ------------------------------------------------------------------------

\* The most page requests one sweep may issue in the model.
MaxPages == 4

\* The largest collection size of the finite upstream.
MaxN == 237

\* The most fetchMonuments / fetchEcosystem calls on one instance.
MaxCalls == 2

\* The most clock advances in one behaviour.
MaxTicks == 2

\* The longest generated string handed to a helper on its own.
MaxLen == 5

\* ------------------------------------------------------------------------
\* Program constants
\* ------------------------------------------------------------------------

\* WebflowCMS.pageSize, used as `limit` by fetchAllPages.
pageSize == 100

\* PAGE_SIZE of fetchAllCollectionItems.
PAGE_SIZE == 100

\* WebflowCMS.cacheExpiry = 5 * 60 * 1000 ms.
cacheExpiry == 5 * 60 * 1000

\* ------------------------------------------------------------------------
\* JavaScript values
\* ------------------------------------------------------------------------

Undefined == [t |-> "undef"]
Null == [t |-> "null"]
NaN == [t |-> "nan"]
Str(s) == [t |-> "str", s |-> s]
Bool(b) == [t |-> "bool", b |-> b]
Arr(a) == [t |-> "arr", a |-> a]
Obj(o) == [t |-> "obj", o |-> o]

\* A thrown TypeError, as the completion of an expression.
TypeError == [t |-> "throw", e |-> "TypeError"]

\* The decimal m / 10^e, with trailing zeros of the fraction removed.
RECURSIVE Dec(_, _)
Dec(m, e) ==
    IF e > 0 /\ m % 10 = 0 THEN Dec(m \div 10, e - 1)
    ELSE [t |-> "num", m |-> m, e |-> e]

Num(n) == Dec(n, 0)

\* ToBoolean: what `!x`, `x || y` and `if (x)` test.
Truthy(v) ==
    CASE v.t = "undef" -> FALSE
      [] v.t = "null"  -> FALSE
      [] v.t = "nan"   -> FALSE
      [] v.t = "str"   -> v.s # <<>>
      [] v.t = "num"   -> v.m # 0
      [] v.t = "bool"  -> v.b
      [] OTHER         -> TRUE

\* a || b
Or(a, b) == IF Truthy(a) THEN a ELSE b

\* v[k] for the keys the normaliser reads: an own property of an object,
\* undefined when the key is absent or v is a primitive or an array.
Get(v, k) == IF v.t = "obj" /\ k \in DOMAIN v.o THEN v.o[k] ELSE Undefined

\* Array.isArray
IsArray(v) == v.t = "arr"

\* typeof v === 'string'
IsString(v) == v.t = "str"

\* ------------------------------------------------------------------------
\* Strings
\* ------------------------------------------------------------------------

WhiteSpace == {" "}
Digits == {"0", "1", "2", "3", "4", "5", "6", "7", "8", "9"}

DigitValue(c) ==
    CASE c = "0" -> 0 [] c = "1" -> 1 [] c = "2" -> 2 [] c = "3" -> 3
      [] c = "4" -> 4 [] c = "5" -> 5 [] c = "6" -> 6 [] c = "7" -> 7
      [] c = "8" -> 8 [] c = "9" -> 9

RECURSIVE TrimStart(_)
TrimStart(s) ==
    IF s # <<>> /\ Head(s) \in WhiteSpace THEN TrimStart(Tail(s)) ELSE s

RECURSIVE TrimEnd(_)
TrimEnd(s) ==
    IF s # <<>> /\ s[Len(s)] \in WhiteSpace
    THEN TrimEnd(SubSeq(s, 1, Len(s) - 1))
    ELSE s

\* String.prototype.trim
Trim(s) == TrimEnd(TrimStart(s))

\* String.prototype.includes(c) for a one-character c
Includes(s, c) == \E i \in 1..Len(s) : s[i] = c

\* String.prototype.split(c) for a one-character separator c
RECURSIVE SplitFrom(_, _, _)
SplitFrom(s, c, cur) ==
    IF s = <<>> THEN <<cur>>
    ELSE IF Head(s) = c THEN <<cur>> \o SplitFrom(Tail(s), c, <<>>)
    ELSE SplitFrom(Tail(s), c, Append(cur, Head(s)))

Split(s, c) == SplitFrom(s, c, <<>>)

\* s.replace(/<[^>]*>/g, ''): scanning from the left, a '<' that has a '>'
\* somewhere after it is removed together with everything up to the first
\* such '>'; every other character is kept.
RECURSIVE RemoveTags(_)
RemoveTags(s) ==
    IF s = <<>> THEN <<>>
    ELSE IF Head(s) = "<" /\ Includes(Tail(s), ">")
         THEN LET close == CHOOSE j \in 2..Len(s) :
                              /\ s[j] = ">"
                              /\ \A k \in 2..(j - 1) : s[k] # ">"
              IN RemoveTags(SubSeq(s, close + 1, Len(s)))
         ELSE <<Head(s)>> \o RemoveTags(Tail(s))

\* ------------------------------------------------------------------------
\* Numbers and property keys
\* ------------------------------------------------------------------------

\* The longest prefix of s made of digits.
RECURSIVE DigitRun(_)
DigitRun(s) ==
    IF s # <<>> /\ Head(s) \in Digits THEN <<Head(s)>> \o DigitRun(Tail(s))
    ELSE <<>>

RECURSIVE DigitsValue(_)
DigitsValue(s) ==
    IF s = <<>> THEN 0
    ELSE 10 * DigitsValue(SubSeq(s, 1, Len(s) - 1)) + DigitValue(s[Len(s)])

\* parseFloat on the strings of the model (no exponent, no "Infinity"):
\* leading white space is skipped, then an optional sign, digits, and an
\* optional '.' with digits; the longest such prefix is the number, and NaN
\* when it holds no digit.
parseFloat(s) ==
    LET t == TrimStart(s)
        signed == t # <<>> /\ Head(t) \in {"+", "-"}
        neg == t # <<>> /\ Head(t) = "-"
        body == IF signed THEN Tail(t) ELSE t
        int == DigitRun(body)
        rest == SubSeq(body, Len(int) + 1, Len(body))
        frac == IF rest # <<>> /\ Head(rest) = "." THEN DigitRun(Tail(rest))
                ELSE <<>>
        mag == DigitsValue(int \o frac)
    IN IF int = <<>> /\ frac = <<>> THEN NaN
       ELSE Dec(IF neg THEN 0 - mag ELSE mag, Len(frac))

\* isNaN on the result of parseFloat
isNaN(v) == v.t = "nan"

DigitChar(d) ==
    CASE d = 0 -> "0" [] d = 1 -> "1" [] d = 2 -> "2" [] d = 3 -> "3"
      [] d = 4 -> "4" [] d = 5 -> "5" [] d = 6 -> "6" [] d = 7 -> "7"
      [] d = 8 -> "8" [] d = 9 -> "9"

RECURSIVE NatToChars(_)
NatToChars(n) ==
    IF n < 10 THEN <<DigitChar(n)>>
    ELSE NatToChars(n \div 10) \o <<DigitChar(n % 10)>>

RECURSIVE Pow10(_)
Pow10(e) == IF e = 0 THEN 1 ELSE 10 * Pow10(e - 1)

\* The fraction digits of m / 10^e, e of them, zero-padded on the left.
RECURSIVE FracChars(_, _)
FracChars(f, e) ==
    IF e = 0 THEN <<>>
    ELSE FracChars(f \div 10, e - 1) \o <<DigitChar(f % 10)>>

\* Number.prototype.toString for the decimals of the model.
NumToChars(v) ==
    LET mag == IF v.m < 0 THEN 0 - v.m ELSE v.m
        whole == NatToChars(mag \div Pow10(v.e))
        frac == FracChars(mag % Pow10(v.e), v.e)
    IN (IF v.m < 0 THEN <<"-">> ELSE <<>>)
       \o whole
       \o (IF v.e > 0 THEN <<".">> \o frac ELSE <<>>)

UndefinedChars == <<"u", "n", "d", "e", "f", "i", "n", "e", "d">>
NullChars == <<"n", "u", "l", "l">>
NaNChars == <<"N", "a", "N">>
TrueChars == <<"t", "r", "u", "e">>
FalseChars == <<"f", "a", "l", "s", "e">>
ObjectChars == <<"[", "o", "b", "j", "e", "c", "t", " ", "O", "b", "j", "e", "c", "t", "]">>

\* ToString of a value used as a property key (table[v]); an array joins
\* the strings of its elements with ',' (null and undefined give '').
RECURSIVE ToKey(_)
RECURSIVE JoinKeys(_)
JoinKeys(a) ==
    IF a = <<>> THEN <<>>
    ELSE LET h == IF Head(a).t \in {"undef", "null"} THEN <<>>
                  ELSE ToKey(Head(a))
         IN IF Len(a) = 1 THEN h ELSE h \o <<",">> \o JoinKeys(Tail(a))

ToKey(v) ==
    CASE v.t = "str"   -> v.s
      [] v.t = "num"   -> NumToChars(v)
      [] v.t = "nan"   -> NaNChars
      [] v.t = "bool"  -> IF v.b THEN TrueChars ELSE FalseChars
      [] v.t = "undef" -> UndefinedChars
      [] v.t = "null"  -> NullChars
      [] v.t = "arr"   -> JoinKeys(v.a)
      [] OTHER         -> ObjectChars

\* The properties every object literal inherits from Object.prototype: a
\* table lookup with one of these keys finds a function, not undefined.
ObjectPrototypeKeys ==
    { <<"c", "o", "n", "s", "t", "r", "u", "c", "t", "o", "r">>,
      <<"t", "o", "S", "t", "r", "i", "n", "g">>,
      <<"v", "a", "l", "u", "e", "O", "f">>,
      <<"h", "a", "s", "O", "w", "n", "P", "r", "o", "p", "e", "r", "t", "y">>,
      <<"i", "s", "P", "r", "o", "t", "o", "t", "y", "p", "e", "O", "f">>,
      <<"p", "r", "o", "p", "e", "r", "t", "y", "I", "s", "E", "n", "u", "m", "e", "r", "a", "b", "l", "e">>,
      <<"t", "o", "L", "o", "c", "a", "l", "e", "S", "t", "r", "i", "n", "g">> }

\* table[key] for an object literal `table`, given as a set of
\* [key, value] rows.
Lookup(table, key) ==
    LET k == ToKey(key)
    IN IF \E row \in table : row.key = k
       THEN (CHOOSE row \in table : row.key = k).value
       ELSE IF k \in ObjectPrototypeKeys THEN [t |-> "fn", name |-> k]
       ELSE Undefined

\* ------------------------------------------------------------------------
\* WebflowCMS helpers
\* ------------------------------------------------------------------------

\* Faulty variant (used to show the property is sensitive): the result is not trimmed.
stripHtmlUntrimmed(html) ==
    IF ~Truthy(html) THEN Str(<<>>)
    ELSE IF IsString(html) THEN Str(RemoveTags(html.s))
    ELSE TypeError

\* stripHtml(html): html.replace throws a TypeError when html is truthy and
\* not a string (numbers, booleans, arrays and objects have no replace).
stripHtml(html) ==
    IF ~Truthy(html) THEN Str(<<>>)
    ELSE IF IsString(html) THEN Str(Trim(RemoveTags(html.s)))
    ELSE TypeError

typeMap ==
    { [key |-> <<"4", "3", "6", "6", "e", "b", "c", "9", "8", "f", "6", "a", "5", "3", "1", "0", "d", "6", "5", "d", "e", "8", "f", "a", "3", "0", "1", "9", "4", "f", "c", "3">>,
        value |-> Str(<<"C", "o", "n", "c", "e", "p", "t">>)],
      [key |-> <<"2", "2", "d", "3", "1", "2", "e", "5", "d", "5", "b", "d", "b", "0", "3", "6", "a", "4", "3", "9", "4", "6", "4", "b", "a", "7", "d", "b", "1", "6", "4", "9">>,
        value |-> Str(<<"P", "r", "o", "g", "r", "a", "m">>)],
      [key |-> <<"6", "7", "3", "7", "f", "1", "1", "3", "b", "6", "c", "a", "7", "5", "3", "e", "f", "6", "8", "7", "b", "0", "5", "f", "e", "2", "2", "5", "f", "b", "0", "3">>,
        value |-> Str(<<"O", "r", "g", "a", "n", "i", "z", "a", "t", "i", "o", "n">>)],
      [key |-> <<"1", "f", "0", "6", "b", "a", "3", "b", "3", "4", "6", "0", "d", "2", "4", "d", "4", "f", "c", "5", "a", "9", "5", "1", "4", "2", "1", "8", "a", "b", "3", "6">>,
        value |-> Str(<<"P", "e", "r", "s", "o", "n">>)] }

categoryMap ==
    { [key |-> <<"7", "4", "d", "2", "9", "8", "c", "5", "f", "d", "f", "9", "2", "5", "0", "2", "2", "9", "5", "5", "7", "7", "4", "e", "7", "2", "8", "a", "e", "1", "f", "9">>,
        value |-> Str(<<"C", "o", "n", "c", "e", "p", "t", "s">>)],
      [key |-> <<"1", "c", "0", "6", "d", "8", "6", "c", "3", "a", "e", "6", "3", "3", "d", "b", "c", "2", "0", "c", "1", "9", "e", "1", "d", "1", "c", "2", "5", "4", "e", "4">>,
        value |-> Str(<<"P", "r", "o", "g", "r", "a", "m", "s">>)],
      [key |-> <<"4", "2", "2", "c", "7", "e", "0", "5", "2", "5", "9", "1", "e", "c", "f", "4", "9", "d", "a", "d", "2", "8", "d", "c", "4", "4", "a", "1", "a", "4", "c", "5">>,
        value |-> Str(<<"O", "r", "g", "a", "n", "i", "z", "a", "t", "i", "o", "n", "s">>)],
      [key |-> <<"5", "1", "8", "4", "3", "3", "6", "1", "d", "b", "d", "b", "e", "2", "4", "b", "3", "b", "6", "4", "4", "6", "2", "d", "4", "6", "5", "f", "5", "a", "9", "f">>,
        value |-> Str(<<"P", "a", "t", "r", "o", "n", "s">>)],
      [key |-> <<"7", "5", "a", "1", "3", "f", "4", "f", "d", "7", "c", "6", "1", "b", "3", "3", "3", "9", "c", "6", "1", "c", "0", "a", "7", "6", "1", "2", "c", "0", "d", "3">>,
        value |-> Str(<<"F", "o", "u", "n", "d", "e", "r", "s">>)] }

UnknownLabel == Str(<<"U", "n", "k", "n", "o", "w", "n">>)

mapTypeAndCategory(typeId, categoryId) ==
    [type |-> Or(Lookup(typeMap, typeId), UnknownLabel),
     category |-> Or(Lookup(categoryMap, categoryId), UnknownLabel)]

commonLocations ==
    { [key |-> <<"N", "e", "w", " ", "Y", "o", "r", "k", ",", " ", "N", "Y">>,
        value |-> Arr(<<Dec(407128, 4), Dec(-740060, 4)>>)],
      [key |-> <<"W", "a", "s", "h", "i", "n", "g", "t", "o", "n", ",", " ", "D", "C">>,
        value |-> Arr(<<Dec(389072, 4), Dec(-770369, 4)>>)],
      [key |-> <<"S", "o", "u", "t", "h", " ", "D", "a", "k", "o", "t", "a">>,
        value |-> Arr(<<Dec(439695, 4), Dec(-999018, 4)>>)],
      [key |-> <<"C", "a", "l", "i", "f", "o", "r", "n", "i", "a">>,
        value |-> Arr(<<Dec(367783, 4), Dec(-1194179, 4)>>)],
      [key |-> <<"T", "e", "x", "a", "s">>,
        value |-> Arr(<<Dec(319686, 4), Dec(-999018, 4)>>)],
      [key |-> <<"F", "l", "o", "r", "i", "d", "a">>,
        value |-> Arr(<<Dec(277663, 4), Dec(-826404, 4)>>)] }

geocodeLocation(location) == Or(Lookup(commonLocations, location), Null)

parseCoordinates(locationData) ==
    IF ~Truthy(locationData) THEN Null
    ELSE IF IsArray(locationData) /\ Len(locationData.a) = 2
         THEN locationData
    ELSE LET parts == IF IsString(locationData)
                      THEN Split(locationData.s, ",") ELSE <<>>
             coords == [i \in 1..Len(parts) |-> parseFloat(Trim(parts[i]))]
         IN IF /\ IsString(locationData)
               /\ Includes(locationData.s, ",")
               /\ Len(coords) = 2
               /\ ~isNaN(coords[1])
               /\ ~isNaN(coords[2])
            THEN Arr(coords)
            ELSE geocodeLocation(locationData)

\* Faulty variant (used to show the property is sensitive): empty pieces are kept.
parseTagsKeepsEmpty(tags) ==
    IF ~Truthy(tags) THEN Arr(<<>>)
    ELSE IF IsArray(tags) THEN tags
    ELSE IF IsString(tags)
         THEN LET pieces == Split(tags.s, ",")
              IN Arr([i \in 1..Len(pieces) |-> Str(Trim(pieces[i]))])
    ELSE Arr(<<>>)

parseTags(tags) ==
    IF ~Truthy(tags) THEN Arr(<<>>)
    ELSE IF IsArray(tags) THEN tags
    ELSE IF IsString(tags)
         THEN LET pieces == Split(tags.s, ",")
                  trimmed == [i \in 1..Len(pieces) |-> Trim(pieces[i])]
              IN Arr([i \in 1..Len(SelectSeq(trimmed, LAMBDA p : p # <<>>))
                        |-> Str(SelectSeq(trimmed, LAMBDA p : p # <<>>)[i])])
    ELSE Arr(<<>>)


\* ------------------------------------------------------------------------
\* Item mapping of fetchMonuments and fetchEcosystem
\* ------------------------------------------------------------------------

\* a || b || c
Or3(a, b, c) == Or(Or(a, b), c)

\* The callback of items.map in fetchMonuments. The object literal is
\* evaluated field by field; the one call that can throw is stripHtml.
NormalizeMonument(item) ==
    LET fieldData == Or(Get(item, "fieldData"), item)
        coordinates == parseCoordinates(Or3(Get(fieldData, "locationcoords"),
                                            Get(fieldData, "coordinates"),
                                            Get(fieldData, "Location")))
        description == stripHtml(Or3(Get(fieldData, "description"),
                                     Get(fieldData, "Description"),
                                     Str(<<>>)))
    IN IF description.t = "throw" THEN description
       ELSE Obj([id |-> Or(Get(item, "id"), Get(item, "_id")),
                 name |-> Or(Get(fieldData, "name"), Get(fieldData, "Name")),
                 status |-> Or(Get(fieldData, "status"),
                               Get(fieldData, "Status")),
                 location |-> Or(Get(fieldData, "location"),
                                 Get(fieldData, "Location")),
                 coordinates |-> coordinates,
                 description |-> description,
                 year |-> Or(Get(fieldData, "year"), Get(fieldData, "Year")),
                 height |-> Or(Get(fieldData, "height"),
                               Get(fieldData, "Height")),
                 builtBy |-> Or(Get(fieldData, "built-by"),
                                Get(fieldData, "Built By")),
                 fundedBy |-> Or(Get(fieldData, "funded-by"),
                                 Get(fieldData, "Funded By")),
                 conceptualizedBy |-> Or(Get(fieldData, "conceptualized-by"),
                                         Get(fieldData, "Conceptualized By")),
                 tags |-> parseTags(Or(Get(fieldData, "tags"),
                                       Get(fieldData, "Tags"))),
                 link |-> Or3(Get(fieldData, "link-2"),
                              Get(fieldData, "link"),
                              Get(fieldData, "Link"))])

\* The callback of items.map in fetchEcosystem.
NormalizeEcosystem(item) ==
    LET fieldData == Or(Get(item, "fieldData"), item)
        mappedTypes == mapTypeAndCategory(Get(fieldData, "type"),
                                          Get(fieldData, "category"))
        description == stripHtml(Or(Or3(Get(fieldData, "description"),
                                        Get(fieldData, "Description"),
                                        Get(fieldData, "notes")),
                                    Str(<<>>)))
    IN IF description.t = "throw" THEN description
       ELSE Obj([id |-> Or(Get(item, "id"), Get(item, "_id")),
                 name |-> Or(Get(fieldData, "name"), Get(fieldData, "Name")),
                 type |-> mappedTypes.type,
                 category |-> mappedTypes.category,
                 association |-> Or(Get(fieldData, "association"),
                                    Get(fieldData, "Association")),
                 location |-> Or(Get(fieldData, "location"),
                                 Get(fieldData, "Location")),
                 website |-> Or(Get(fieldData, "website"),
                                Get(fieldData, "Website")),
                 description |-> description,
                 tags |-> parseTags(Or(Get(fieldData, "tags"),
                                       Get(fieldData, "Tags")))])

Normalize(key, item) ==
    IF key = "monuments" THEN NormalizeMonument(item)
    ELSE NormalizeEcosystem(item)


\* ------------------------------------------------------------------------
\* The upstream: items and HTTP responses
\* ------------------------------------------------------------------------

\* An upstream item is named by its id and the shape of its record.
Item(id, shape) == [id |-> id, shape |-> shape]

\* The JSON object of an upstream item, as response.json() delivers it.
\* "flat" carries its fields at top level, "nested" under fieldData, and
\* "numeric" has a number where the description text is expected.
RawItem(it) ==
    LET fields == [name |-> Str(<<"M", "t">>),
                   description |-> Str(<<"<", "p", ">", "H", "i", "<", "/",
                                         "p", ">">>),
                   tags |-> Str(<<"a", ",", " ", "b">>),
                   Location |-> Str(<<"T", "e", "x", "a", "s">>)]
    IN CASE it.shape = "flat" ->
              Obj([id |-> Num(it.id)] @@ fields)
         [] it.shape = "nested" ->
              Obj([_id |-> Num(it.id), fieldData |-> Obj(fields)])
         [] it.shape = "numeric" ->
              Obj([id |-> Num(it.id), description |-> Num(5)])

\* The items a page of n items at offset k holds: ids k+1 .. k+n.
PageItems(k, n, shape) == [i \in 1..n |-> Item(k + i, shape)]

\* fetch() resolved with a non-success status.
HttpError(status, text) ==
    [kind |-> "http", ok |-> FALSE, status |-> status, text |-> text]

\* fetch() rejected: no response at all.
NetworkFailure == [kind |-> "network"]

\* fetch() resolved with a 2xx status and this body.
HttpOk(body) == [kind |-> "http", ok |-> TRUE, status |-> 200, body |-> body]

\* Bodies: an object with an `items` list, and maybe pagination.total and a
\* top-level total; a bare list; an object with no `items`; the JSON value
\* null; and text that is not JSON.
ItemsBody(items, pagTotal, topTotal) ==
    [shape |-> "items", items |-> items, pagination |-> pagTotal,
     total |-> topTotal]
ListBody(items) == [shape |-> "list", items |-> items]
ObjectBody(pagTotal, topTotal) ==
    [shape |-> "object", pagination |-> pagTotal, total |-> topTotal]
NullBody == [shape |-> "null"]
InvalidBody == [shape |-> "invalid"]

\* Page lengths the arbitrary upstream answers with.
PageLens == {0, 1, pageSize}

\* Totals the arbitrary upstream may report when c items are collected
\* once the page is added: none, below, equal, above.
TotalChoices(c) ==
    {Undefined, Num(c), Num(c + 1)} \cup (IF c > 0 THEN {Num(c - 1)} ELSE {})

ErrorStatuses == {404, 500}
ErrorTexts == {"", "upstream says no"}

\* Every answer of the arbitrary upstream to a request at offset k when
\* c items are already collected; a full page is answered only while the
\* model may still issue a request.
AnyResponses(k, c, mayContinue) ==
    LET lens == IF mayContinue THEN PageLens ELSE PageLens \ {pageSize}
    IN {HttpError(s, x) : s \in ErrorStatuses, x \in ErrorTexts}
       \cup {NetworkFailure, HttpOk(NullBody), HttpOk(InvalidBody)}
       \cup {HttpOk(ListBody(PageItems(k, n, "flat"))) : n \in lens}
       \cup {HttpOk(ObjectBody(p, x)) :
                p \in TotalChoices(c), x \in TotalChoices(c)}
       \cup UNION {{HttpOk(ItemsBody(PageItems(k, n, "flat"), p, x)) :
                       p \in TotalChoices(c + n), x \in TotalChoices(c + n)} :
                   n \in lens}

\* The finite upstream of n items: offset k is answered with items
\* k .. min(k + 100, n) - 1 (ids k+1 ..), no total, never an error.
FiniteResponses(k, n) ==
    LET len == IF n - k >= pageSize THEN pageSize
               ELSE IF n - k > 0 THEN n - k ELSE 0
    IN {HttpOk(ItemsBody(PageItems(k, len, "flat"), Undefined, Undefined))}

\* The upstream of the cache scenarios: an error or an empty page, and at
\* offset 0 also a page holding a record whose description is a number, a
\* short page and a full page.
LiteResponses(k) ==
    {HttpError(500, ""),
     HttpOk(ItemsBody(<<>>, Undefined, Undefined))}
    \cup (IF k = 0
          THEN {HttpOk(ItemsBody(PageItems(k, 1, "numeric"),
                                 Undefined, Undefined)),
                HttpOk(ItemsBody(PageItems(k, 1, "nested"),
                                 Undefined, Undefined)),
                HttpOk(ItemsBody(PageItems(k, pageSize, "flat"),
                                 Undefined, Undefined))}
          ELSE {})

\* ------------------------------------------------------------------------
\* The paginators: one loop iteration, from the resumption after
\* `await fetch(url)` to the next fetch, the return or the throw
\* ------------------------------------------------------------------------

Continue(off, all) == [next |-> "continue", offset |-> off, allItems |-> all]
Return(all) == [next |-> "return", allItems |-> all]
Throw(err) == [next |-> "throw", error |-> err]

\* fetch() rejecting, response.json() rejecting on text that is not JSON,
\* and the property read `data.items` on null.
FetchRejected == [name |-> "TypeError", cause |-> "fetch"]
JsonRejected == [name |-> "SyntaxError", cause |-> "json"]
NullRead == [name |-> "TypeError", cause |-> "data.items"]

\* x != null
NotNullish(v) == v.t \notin {"undef", "null"}

\* --- fetchAllCollectionItems (proxy) ---

\* Faulty variant (used to show the property is sensitive): the error message leaves the response body out.
tsHttpErrorNoBody(resp) ==
    [name |-> "Error", prefix |-> "Webflow API", status |-> resp.status]

\* new Error(`Webflow API ${response.status}: ${body}`)
tsHttpError(resp) ==
    [name |-> "Error", prefix |-> "Webflow API", status |-> resp.status,
     body |-> resp.text]

\* data.items ?? []
tsItems(data) == IF data.shape = "items" THEN data.items ELSE <<>>

\* data.pagination?.total
tsTotal(data) ==
    IF data.shape \in {"items", "object"} THEN data.pagination ELSE Undefined

\* Faulty variant (used to show the property is sensitive): the new page is put in front of the collected items.
tsConcatInFront(allItems_, items) == items \o allItems_

\* allItems.concat(items)
tsConcat(allItems_, items) == allItems_ \o items

\* total != null && allItems.length >= total
tsReachedTotal(total, n) == NotNullish(total) /\ n >= total.m

\* items.length < PAGE_SIZE
tsLastPage(items) == Len(items) < PAGE_SIZE

\* offset += PAGE_SIZE
tsNextOffset(offset_) == offset_ + PAGE_SIZE

fetchAllCollectionItems(resp, offset_, allItems_) ==
    IF resp.kind = "network" THEN Throw(FetchRejected)
    ELSE IF ~resp.ok THEN Throw(tsHttpError(resp))
    ELSE IF resp.body.shape = "invalid" THEN Throw(JsonRejected)
    ELSE IF resp.body.shape = "null" THEN Throw(NullRead)
    ELSE LET data == resp.body
             items == tsItems(data)
             all == tsConcat(allItems_, items)
             total == tsTotal(data)
         IN IF Len(items) = 0 THEN Return(allItems_)
            ELSE IF tsReachedTotal(total, Len(all)) THEN Return(all)
            ELSE IF tsLastPage(items) THEN Return(all)
            ELSE Continue(tsNextOffset(offset_), all)

\* --- WebflowCMS.fetchAllPages (client) ---

\* new Error(`HTTP error! status: ${response.status}`)
jsHttpError(resp) ==
    [name |-> "Error", prefix |-> "HTTP error! status:",
     status |-> resp.status]

\* data.items || data
jsItems(data) ==
    Or(IF data.shape = "items" THEN Arr(data.items) ELSE Undefined,
       IF data.shape = "list" THEN Arr(data.items) ELSE Obj(data))

\* data.total
jsTotal(data) ==
    IF data.shape \in {"items", "object"} THEN data.total ELSE Undefined

\* allItems.concat(items)
jsConcat(allItems_, items) == allItems_ \o items

\* data.total != null && allItems.length >= data.total
jsReachedTotal(total, n) == NotNullish(total) /\ n >= total.m

\* Faulty variant (used to show the property is sensitive): a full page is taken for the last one.
jsLastPageInclusive(items) == Len(items) <= pageSize

\* items.length < limit
jsLastPage(items) == Len(items) < pageSize

\* Faulty variant (used to show the property is sensitive): the offset is not advanced.
jsNextOffsetStuck(offset_) == offset_

\* offset += limit
jsNextOffset(offset_) == offset_ + pageSize

fetchAllPages(resp, offset_, allItems_) ==
    IF resp.kind = "network" THEN Throw(FetchRejected)
    ELSE IF ~resp.ok THEN Throw(jsHttpError(resp))
    ELSE IF resp.body.shape = "invalid" THEN Throw(JsonRejected)
    ELSE IF resp.body.shape = "null" THEN Throw(NullRead)
    ELSE LET data == resp.body
             items == jsItems(data)
         IN IF ~IsArray(items) \/ Len(items.a) = 0 THEN Return(allItems_)
            ELSE LET all == jsConcat(allItems_, items.a)
                 IN IF jsReachedTotal(jsTotal(data), Len(all))
                    THEN Return(all)
                    ELSE IF jsLastPage(items.a) THEN Return(all)
                    ELSE Continue(jsNextOffset(offset_), all)

\* ------------------------------------------------------------------------
\* The cache of WebflowCMS and the responses of the route handlers
\* ------------------------------------------------------------------------

\* Faulty variant (used to show the property is sensitive): an entry exactly cacheExpiry old still counts as fresh.
getCachedDataInclusive(cache_, key, time) ==
    IF key \in DOMAIN cache_ /\ time - cache_[key].timestamp <= cacheExpiry
    THEN cache_[key].data
    ELSE Null

\* getCachedData(key) at time `time`
getCachedData(cache_, key, time) ==
    IF key \in DOMAIN cache_ /\ time - cache_[key].timestamp < cacheExpiry
    THEN cache_[key].data
    ELSE Null

\* Faulty variant (used to show the property is sensitive): an entry already stored for the key is kept.
setCachedDataKeepsFirst(cache_, key, data, time) ==
    [k \in DOMAIN cache_ \cup {key} |->
        IF k \in DOMAIN cache_ THEN cache_[k]
        ELSE [data |-> data, timestamp |-> time]]

\* Faulty variant (used to show the property is sensitive): storing a key drops the entries of the other keys.
setCachedDataSingleSlot(cache_, key, data, time) ==
    [k \in {key} |-> [data |-> data, timestamp |-> time]]

\* setCachedData(key, data) at time `time`
setCachedData(cache_, key, data, time) ==
    [k \in DOMAIN cache_ \cup {key} |->
        IF k = key THEN [data |-> data, timestamp |-> time] ELSE cache_[k]]

\* items.map(item => ...): the first callback that throws ends the map.
MapItems(key, items) ==
    LET out == [i \in 1..Len(items) |-> Normalize(key, RawItem(items[i]))]
    IN IF \E i \in 1..Len(out) : out[i].t = "throw" THEN TypeError
       ELSE Arr(out)

\* Faulty variant (used to show the property is sensitive): only the token is checked.
MissingToken(env_) == ~Truthy(env_.WEBFLOW_API_TOKEN)

\* !WEBFLOW_API_TOKEN || !<RESOURCE>_COLLECTION_ID
MissingCredentials(env_) ==
    ~Truthy(env_.WEBFLOW_API_TOKEN) \/ ~Truthy(env_.COLLECTION_ID)

MissingResponse ==
    [status |-> 500, body |-> [error |-> "Missing API credentials"]]

ItemsResponse(items) == [status |-> 200, body |-> [items |-> items]]

FailedResponse(resource_) ==
    [status |-> 500,
     body |-> [error |-> IF resource_ = "monuments"
                         THEN "Failed to fetch monuments"
                         ELSE "Failed to fetch ecosystem"]]

\* fetchAllCollectionItems run to its end against the finite upstream of
\* n items, from the request at offset off with `all` collected.
RECURSIVE ProxySweep(_, _, _)
ProxySweep(off, all, n) ==
    LET resp == CHOOSE r \in FiniteResponses(off, n) : TRUE
        step == fetchAllCollectionItems(resp, off, all)
    IN IF step.next = "continue"
       THEN ProxySweep(step.offset, step.allItems, n)
       ELSE step

\* What GET of the route returns for a collection of n items. The handler
\* takes only `locals`: the offset and limit of the request are not read.
RouteAnswer(resource_, n) ==
    LET step == ProxySweep(0, <<>>, n)
    IN IF step.next = "return" THEN ItemsResponse(step.allItems)
       ELSE FailedResponse(resource_)

\* The route's Response as the client's fetch(url) receives it.
RouteResponses(resource_, n) ==
    LET r == RouteAnswer(resource_, n)
    IN {IF r.status = 200
        THEN HttpOk(ItemsBody(r.body.items, Undefined, Undefined))
        ELSE HttpError(r.status, "")}


\* ------------------------------------------------------------------------
\* State
\* ------------------------------------------------------------------------

VARIABLES
    side,       \* "proxy": a route handler runs; "client": a WebflowCMS
    resource,   \* "monuments" or "ecosystem": the route, or the cacheKey
    env,        \* locals.runtime.env of the route handler
    upstream,   \* how the upstream answers: "any", "finite", "lite",
                \* "route" (the upstream is the proxy's route)
    N,          \* the collection size of the finite upstream
    callsLeft,  \* the calls the page still makes on the instance
    pc,         \* "init", "await" (a request is in flight), "returned",
                \* "threw" (the paginator has settled), "done"
    offset,     \* the paginator's offset
    allItems,   \* the paginator's allItems
    requests,   \* every request issued in this sweep, in order
    pages,      \* the item lists of the bodies received in this sweep,
                \* each with the shape of its body
    last,       \* the last response, with the offset it answered
    thrown,     \* the error the paginator threw
    caught,     \* the error the caller's catch block logged
    response,   \* the Response the route handler returned
    settled,    \* the promise of the current fetchMonuments/fetchEcosystem
    cache,      \* WebflowCMS.cache: key -> {data, timestamp}
    now,        \* Date.now()
    ticks,      \* clock advances so far
    history,    \* the latest fetchMonuments/fetchEcosystem call: its key,
                \* its time, the entry it found, whether it ran the sweep
    input,      \* the raw item handed to the item mapping
    output,     \* what the item mapping returned for it
    calls       \* the overlapping fetchMonuments/fetchEcosystem calls on
                \* one instance, each with the locals of its sweep

vars == <<side, resource, env, upstream, N, callsLeft, pc, offset, allItems,
          requests, pages, last, thrown, caught, response, settled, cache,
          now, ticks, history, input, output, calls>>

sweepVars == <<offset, allItems, requests, pages, last, thrown>>

NoError == [name |-> "none"]
NoLast == [resp |-> [kind |-> "none"], offset |-> 0, collected |-> 0]
NoResponse == [status |-> 0, body |-> [none |-> TRUE]]
Pending == [state |-> "pending"]
Fulfilled(v) == [state |-> "fulfilled", value |-> v]
Rejected(e) == [state |-> "rejected", reason |-> e]
EmptyCache == [k \in {} |-> Null]
NoCall == [key |-> "none", time |-> 0, had |-> FALSE, timestamp |-> 0,
           ran |-> FALSE]

Resources == {"monuments", "ecosystem"}

\* Two calls made on one instance without awaiting the first.
CallIds == {1, 2}

\* A call that has not been made yet.
Idle ==
    [key |-> "none", pc |-> "idle", offset |-> 0, allItems |-> <<>>,
     nreq |-> 0, thrown |-> NoError, settled |-> Pending, failed |-> FALSE,
     startAt |-> 0, endAt |-> 0, endTime |-> 0]

NoCalls == [c \in CallIds |-> Idle]

\* What an environment variable may hold: absent, empty, set.
EnvValues == {Undefined, Str(<<>>), Str(<<"k">>)}
Envs == [WEBFLOW_API_TOKEN : EnvValues, COLLECTION_ID : EnvValues]
ClientEnv == [WEBFLOW_API_TOKEN |-> Undefined, COLLECTION_ID |-> Undefined]

\* Clock advances: one millisecond, or one short of the expiry.
TickSteps == {1, cacheExpiry - 1}

\* Everything but side, resource, env, upstream, N, callsLeft, input.
Fresh ==
    /\ pc = "init"
    /\ offset = 0
    /\ allItems = <<>>
    /\ requests = <<>>
    /\ pages = <<>>
    /\ last = NoLast
    /\ thrown = NoError
    /\ caught = NoError
    /\ response = NoResponse
    /\ settled = Pending
    /\ cache = EmptyCache
    /\ now = 0
    /\ ticks = 0
    /\ history = NoCall
    /\ output = Undefined
    /\ calls = NoCalls

\* One invocation (a route GET, or a fetch on a new WebflowCMS) against an
\* upstream that may answer anything.
Init ==
    /\ side \in {"proxy", "client"}
    /\ resource \in Resources
    /\ env \in IF side = "proxy" THEN Envs ELSE {ClientEnv}
    /\ upstream = "any"
    /\ N = 0
    /\ callsLeft = 1
    /\ input = Undefined
    /\ Fresh

\* One invocation against the finite upstream of N items.
InitFinite ==
    /\ side \in {"proxy", "client"}
    /\ resource \in Resources
    /\ env = IF side = "proxy"
             THEN [WEBFLOW_API_TOKEN |-> Str(<<"k">>),
                   COLLECTION_ID |-> Str(<<"k">>)]
             ELSE ClientEnv
    /\ upstream = "finite"
    /\ N \in 0..MaxN
    /\ callsLeft = 1
    /\ input = Undefined
    /\ Fresh

\* A WebflowCMS instance that serves MaxCalls sequential calls.
InitCache ==
    /\ side = "client"
    /\ resource = "monuments"
    /\ env = ClientEnv
    /\ upstream = "lite"
    /\ N = 0
    /\ callsLeft = MaxCalls
    /\ input = Undefined
    /\ Fresh

\* ------------------------------------------------------------------------
\* Actions
\* ------------------------------------------------------------------------

\* The first request of a sweep: offset 0, the paginator's page size.
StartSweep(limit) ==
    /\ offset' = 0
    /\ allItems' = <<>>
    /\ requests' = <<[offset |-> 0, limit |-> limit]>>
    /\ pages' = <<>>
    /\ last' = NoLast
    /\ thrown' = NoError
    /\ pc' = "await"

\* GET of monuments.json.ts / ecosystem.json.ts, up to its first await.
GET ==
    /\ side = "proxy"
    /\ pc = "init"
    /\ IF MissingCredentials(env)
       THEN /\ response' = MissingResponse
            /\ pc' = "done"
            /\ UNCHANGED sweepVars
       ELSE /\ StartSweep(PAGE_SIZE)
            /\ UNCHANGED response
    /\ UNCHANGED <<calls, side, resource, env, upstream, N, callsLeft, caught,
                   settled, cache, now, ticks, history, input, output>>

\* fetchMonuments / fetchEcosystem, up to the first await.
Fetch(key) ==
    /\ side = "client"
    /\ pc \in {"init", "done"}
    /\ callsLeft > 0
    /\ callsLeft' = callsLeft - 1
    /\ resource' = key
    /\ caught' = NoError
    /\ \E cachedData \in {getCachedData(cache, key, now)} :
          /\ history' = [key |-> key, time |-> now,
                         had |-> key \in DOMAIN cache,
                         timestamp |-> IF key \in DOMAIN cache
                                       THEN cache[key].timestamp ELSE 0,
                         ran |-> ~Truthy(cachedData)]
          /\ IF Truthy(cachedData)
             THEN /\ settled' = Fulfilled(cachedData)
                  /\ pc' = "done"
                  /\ UNCHANGED sweepVars
             ELSE /\ settled' = Pending
                  /\ StartSweep(pageSize)
    /\ UNCHANGED <<calls, side, env, upstream, N, response, cache, now, ticks,
                   input, output>>

fetchMonuments == Fetch("monuments")

fetchEcosystem == Fetch("ecosystem")

\* What the upstream may answer to the request in flight.
Responses ==
    CASE upstream = "any" ->
           AnyResponses(offset, Len(allItems), Len(requests) < MaxPages)
      [] upstream = "finite" -> FiniteResponses(offset, N)
      [] upstream = "lite" -> LiteResponses(offset)
      [] upstream = "route" -> RouteResponses(resource, N)

\* The request in flight is answered and the paginator runs to its next
\* fetch, its return or its throw.
Respond ==
    /\ pc = "await"
    /\ \E resp \in Responses :
       \E step \in {IF side = "proxy"
                    THEN fetchAllCollectionItems(resp, offset, allItems)
                    ELSE fetchAllPages(resp, offset, allItems)} :
            /\ last' = [resp |-> resp, offset |-> offset,
                        collected |-> Len(allItems)]
            /\ pages' = IF resp.kind = "http" /\ resp.ok
                           /\ resp.body.shape \in {"items", "list"}
                        THEN Append(pages, [shape |-> resp.body.shape,
                                            items |-> resp.body.items])
                        ELSE pages
            /\ CASE step.next = "continue" ->
                      /\ Len(requests) < MaxPages
                      /\ offset' = step.offset
                      /\ allItems' = step.allItems
                      /\ requests' = Append(requests,
                             [offset |-> step.offset,
                              limit |-> IF side = "proxy" THEN PAGE_SIZE
                                        ELSE pageSize])
                      /\ pc' = "await"
                      /\ UNCHANGED thrown
                 [] step.next = "return" ->
                      /\ allItems' = step.allItems
                      /\ pc' = "returned"
                      /\ UNCHANGED <<offset, requests, thrown>>
                 [] step.next = "throw" ->
                      /\ thrown' = step.error
                      /\ pc' = "threw"
                      /\ UNCHANGED <<offset, requests, allItems>>
    /\ UNCHANGED <<calls, side, resource, env, upstream, N, callsLeft, caught,
                   response, settled, cache, now, ticks, history, input,
                   output>>

\* Faulty variant (used to show the property is sensitive): a failed sweep is answered 200 with an empty list.
routeOutcomeHidesFailure(resource_, pc_, allItems_, thrown_) ==
    IF pc_ = "returned"
    THEN [response |-> ItemsResponse(allItems_), caught |-> NoError]
    ELSE [response |-> ItemsResponse(<<>>), caught |-> thrown_]

\* The try/catch of GET around the sweep: what is returned, what is logged.
routeOutcome(resource_, pc_, allItems_, thrown_) ==
    IF pc_ = "returned"
    THEN [response |-> ItemsResponse(allItems_), caught |-> NoError]
    ELSE [response |-> FailedResponse(resource_), caught |-> thrown_]

\* GET resumes after `await fetchAllCollectionItems(...)`.
GETResume ==
    /\ side = "proxy"
    /\ pc \in {"returned", "threw"}
    /\ \E out \in {routeOutcome(resource, pc, allItems, thrown)} :
          /\ response' = out.response
          /\ caught' = out.caught
    /\ pc' = "done"
    /\ UNCHANGED <<calls, side, resource, env, upstream, N, callsLeft, offset,
                   allItems, requests, pages, last, thrown, settled, cache,
                   now, ticks, history, input, output>>

\* Faulty variant (used to show the property is sensitive): the catch block stores the empty list.
fetchOutcomeCachesFailure(cache_, key, pc_, allItems_, thrown_, time) ==
    IF pc_ = "threw" \/ MapItems(key, allItems_).t = "throw"
    THEN [cache |-> setCachedData(cache_, key, Arr(<<>>), time),
          settled |-> Fulfilled(Arr(<<>>)),
          caught |-> IF pc_ = "threw" THEN thrown_
                     ELSE [name |-> "TypeError", cause |-> "map"]]
    ELSE [cache |-> setCachedData(cache_, key, MapItems(key, allItems_),
                                  time),
          settled |-> Fulfilled(MapItems(key, allItems_)),
          caught |-> NoError]

\* Faulty variant (used to show the property is sensitive): the catch block rethrows.
fetchOutcomeRethrows(cache_, key, pc_, allItems_, thrown_, time) ==
    IF pc_ = "threw"
    THEN [cache |-> cache_, settled |-> Rejected(thrown_),
          caught |-> thrown_]
    ELSE IF MapItems(key, allItems_).t = "throw"
    THEN [cache |-> cache_,
          settled |-> Rejected([name |-> "TypeError", cause |-> "map"]),
          caught |-> [name |-> "TypeError", cause |-> "map"]]
    ELSE [cache |-> setCachedData(cache_, key, MapItems(key, allItems_),
                                  time),
          settled |-> Fulfilled(MapItems(key, allItems_)),
          caught |-> NoError]

\* The try/catch of fetchMonuments / fetchEcosystem around the sweep, the
\* item mapping and setCachedData.
fetchOutcome(cache_, key, pc_, allItems_, thrown_, time) ==
    IF pc_ = "threw"
    THEN [cache |-> cache_, settled |-> Fulfilled(Arr(<<>>)),
          caught |-> thrown_]
    ELSE LET processedData == MapItems(key, allItems_)
         IN IF processedData.t = "throw"
            THEN [cache |-> cache_, settled |-> Fulfilled(Arr(<<>>)),
                  caught |-> [name |-> processedData.e, cause |-> "map"]]
            ELSE [cache |-> setCachedData(cache_, key, processedData, time),
                  settled |-> Fulfilled(processedData),
                  caught |-> NoError]

\* fetchMonuments / fetchEcosystem resumes after `await fetchAllPages(...)`;
\* the locals of the finished fetchAllPages call are gone.
fetchResume ==
    /\ side = "client"
    /\ pc \in {"returned", "threw"}
    /\ \E out \in {fetchOutcome(cache, resource, pc, allItems, thrown, now)} :
          /\ cache' = out.cache
          /\ settled' = out.settled
          /\ caught' = out.caught
    /\ pc' = "done"
    /\ offset' = 0
    /\ allItems' = <<>>
    /\ requests' = <<>>
    /\ pages' = <<>>
    /\ last' = NoLast
    /\ thrown' = NoError
    /\ UNCHANGED <<calls, side, resource, env, upstream, N, callsLeft, response,
                   now, ticks, history, input, output>>

\* Time passes.
Tick ==
    /\ pc \in {"init", "await", "done"}
    /\ ticks < MaxTicks
    /\ \E d \in TickSteps : now' = now + d
    /\ ticks' = ticks + 1
    /\ UNCHANGED <<calls, side, resource, env, upstream, N, callsLeft, pc, offset,
                   allItems, requests, pages, last, thrown, caught, response,
                   settled, cache, history, input, output>>

Next ==
    \/ GET
    \/ fetchMonuments
    \/ fetchEcosystem
    \/ Respond
    \/ GETResume
    \/ fetchResume

NextCache ==
    \/ fetchMonuments
    \/ fetchEcosystem
    \/ Respond
    \/ fetchResume
    \/ Tick

Spec == Init /\ [][Next]_vars

SpecFinite == InitFinite /\ [][Next]_vars

SpecCache == InitCache /\ [][NextCache]_vars

\* One fetch of the client against the proxy's route, which serves a
\* collection of N items.
InitCompose ==
    /\ side = "client"
    /\ resource \in Resources
    /\ env = ClientEnv
    /\ upstream = "route"
    /\ N \in 0..MaxN
    /\ callsLeft = 1
    /\ input = Undefined
    /\ Fresh

NextCompose ==
    \/ fetchMonuments
    \/ fetchEcosystem
    \/ Respond
    \/ fetchResume

SpecCompose == InitCompose /\ [][NextCompose]_vars


\* ------------------------------------------------------------------------
\* The item mapping alone, on one raw item
\* ------------------------------------------------------------------------

EmptyObject == [k \in {} |-> Undefined]

\* An object with key k holding v, or no key at all when v is undefined.
Field(k, v) == IF v = Undefined THEN EmptyObject ELSE (k :> v)

\* Values of every JSON type for the description field.
DescriptionValues ==
    {Undefined, Null, Str(<<>>), Str(<<"<", "b", ">", "x", " ">>),
     Num(0), Num(5), Bool(FALSE), Bool(TRUE), Arr(<<>>),
     Arr(<<Str(<<"x">>)>>), Obj(EmptyObject)}

TagsValues ==
    {Undefined, Str(<<"a", ",", " ", "b">>), Arr(<<Str(<<"a">>)>>), Num(5),
     Obj(EmptyObject)}

CoordinateValues ==
    {Undefined, Str(<<"4", ".", "5", ",", "-", "7">>),
     Str(<<"T", "e", "x", "a", "s">>), Arr(<<Num(4), Num(7)>>), Num(5),
     Bool(TRUE)}

\* Raw items: a JSON object whose fields are absent or hold a value of any
\* JSON type, at top level or under fieldData.
RawInputs ==
    LET fieldsOf(d, g, c) ==
            Field("description", d) @@ Field("tags", g)
            @@ Field("coordinates", c) @@ Field("type", g)
    IN UNION {{Obj([id |-> Num(1)] @@ fieldsOf(d, g, c)),
               Obj([_id |-> Num(1), fieldData |-> Obj(fieldsOf(d, g, c))])} :
              d \in DescriptionValues, g \in TagsValues,
              c \in CoordinateValues}

InitNorm ==
    /\ side = "norm"
    /\ resource \in Resources
    /\ env = ClientEnv
    /\ upstream = "none"
    /\ N = 0
    /\ callsLeft = 0
    /\ input \in RawInputs
    /\ Fresh

\* The item mapping of fetchMonuments / fetchEcosystem applied to `input`.
NormalizeItem ==
    /\ side = "norm"
    /\ pc = "init"
    /\ output' = Normalize(resource, input)
    /\ pc' = "done"
    /\ UNCHANGED <<calls, side, resource, env, upstream, N, callsLeft, offset,
                   allItems, requests, pages, last, thrown, caught, response,
                   settled, cache, now, ticks, history, input>>

NextNorm == NormalizeItem

SpecNorm == InitNorm /\ [][NextNorm]_vars


\* ------------------------------------------------------------------------
\* The helpers alone: parseCoordinates, parseTags, stripHtml on one value
\* ------------------------------------------------------------------------

\* Every string of at most n characters over an alphabet.
StringsOver(alphabet, n) == UNION {[1..k -> alphabet] : k \in 0..n}

Texas == <<"T", "e", "x", "a", "s">>

\* Values parseCoordinates may be handed: absent, every JSON type, arrays
\* of length 0 to 3, the names of the table, names the table object
\* inherits, and every short string over digits, ',', '.', '-' and ' '.
CoordinateInputs ==
    {Undefined, Null, Num(0), Num(5), Bool(FALSE), Bool(TRUE),
     Obj(EmptyObject), Arr(<<>>), Arr(<<Num(1)>>), Arr(<<Str(Texas)>>),
     Arr(<<Num(4), Num(7)>>), Arr(<<Str(Texas), Null>>),
     Arr(<<Num(1), Num(2), Num(3)>>),
     Str(<<"4", "0", ".", "6", "8", "9", "2", ",", "-", "7", "4", ".", "0",
           "4", "4", "5">>),
     Str(<<"P", "a", "r", "i", "s">>),
     Str(Texas \o <<" ">>)}
    \cup {Str(row.key) : row \in commonLocations}
    \cup {Str(k) : k \in ObjectPrototypeKeys}
    \cup {Str(s) : s \in StringsOver({"1", ",", ".", "-", " "}, MaxLen)}

\* Values parseTags may be handed.
TagInputs ==
    {Undefined, Null, Num(0), Num(5), Bool(TRUE), Obj(EmptyObject),
     Arr(<<>>), Arr(<<Str(<<"a">>), Num(1)>>),
     Arr(<<Str(<<" ", "a">>), Str(<<>>)>>),
     Str(<<"a", ",", " ", "b", " ", ",", "c">>)}
    \cup {Str(s) : s \in StringsOver({"a", "b", ",", " "}, MaxLen)}

\* Values stripHtml is handed when the field is text or absent.
HtmlInputs ==
    {Undefined, Null,
     Str(<<"<", "p", ">", "H", "i", " ", "<", "b", ">", "t", "h", "e", "r",
           "e", "<", "/", "b", ">", "<", "/", "p", ">">>),
     Str(<<"<", "a", "<", "b", ">", ">", " ", "c">>)}
    \cup {Str(s) : s \in StringsOver({"<", ">", "a", " "}, MaxLen)}

Helpers == {"parseCoordinates", "parseTags", "stripHtml"}

HelperInputs(helper) ==
    CASE helper = "parseCoordinates" -> CoordinateInputs
      [] helper = "parseTags" -> TagInputs
      [] helper = "stripHtml" -> HtmlInputs

InitHelper ==
    /\ side = "helper"
    /\ resource \in Helpers
    /\ env = ClientEnv
    /\ upstream = "none"
    /\ N = 0
    /\ callsLeft = 0
    /\ input \in HelperInputs(resource)
    /\ Fresh

\* One call of a helper on `input`.
CallHelper(helper, result) ==
    /\ side = "helper"
    /\ resource = helper
    /\ pc = "init"
    /\ output' = result
    /\ pc' = "done"
    /\ UNCHANGED <<calls, side, resource, env, upstream, N, callsLeft, offset,
                   allItems, requests, pages, last, thrown, caught, response,
                   settled, cache, now, ticks, history, input>>

parseCoordinatesCall == CallHelper("parseCoordinates", parseCoordinates(input))

parseTagsCall == CallHelper("parseTags", parseTags(input))

stripHtmlCall == CallHelper("stripHtml", stripHtml(input))

NextHelper ==
    \/ parseCoordinatesCall
    \/ parseTagsCall
    \/ stripHtmlCall

SpecHelper == InitHelper /\ [][NextHelper]_vars


\* ------------------------------------------------------------------------
\* Overlapping calls on one WebflowCMS instance
\* ------------------------------------------------------------------------

InitRace ==
    /\ side = "race"
    /\ resource = "monuments"
    /\ env = ClientEnv
    /\ upstream = "lite"
    /\ N = 0
    /\ callsLeft = 0
    /\ input = Undefined
    /\ Fresh

\* The number of the next event (a call starting or finishing).
NextEvent ==
    1 + Cardinality({c \in CallIds : calls[c].pc # "idle"})
      + Cardinality({c \in CallIds : calls[c].pc = "done"})

\* Call c of fetchMonuments / fetchEcosystem runs up to its first await:
\* it reads the cache and, on a miss, issues the first request.
RaceFetch(c, key) ==
    /\ side = "race"
    /\ calls[c].pc = "idle"
    /\ \E cachedData \in {getCachedData(cache, key, now)} :
          calls' = [calls EXCEPT ![c] =
              IF Truthy(cachedData)
              THEN [@ EXCEPT !.key = key, !.pc = "done",
                             !.settled = Fulfilled(cachedData),
                             !.startAt = NextEvent,
                             !.endAt = NextEvent + 1, !.endTime = now]
              ELSE [@ EXCEPT !.key = key, !.pc = "await", !.nreq = 1,
                             !.startAt = NextEvent]]
    /\ UNCHANGED <<side, resource, env, upstream, N, callsLeft, pc, offset,
                   allItems, requests, pages, last, thrown, caught, response,
                   settled, cache, now, ticks, history, input, output>>

\* The request of call c is answered and its fetchAllPages runs to its
\* next fetch, its return or its throw.
RaceRespond(c) ==
    /\ side = "race"
    /\ calls[c].pc = "await"
    /\ \E resp \in LiteResponses(calls[c].offset) :
       \E step \in {fetchAllPages(resp, calls[c].offset, calls[c].allItems)} :
          CASE step.next = "continue" ->
                 /\ calls[c].nreq < MaxPages
                 /\ calls' = [calls EXCEPT ![c].offset = step.offset,
                                           ![c].allItems = step.allItems,
                                           ![c].nreq = @ + 1]
            [] step.next = "return" ->
                 calls' = [calls EXCEPT ![c].allItems = step.allItems,
                                        ![c].pc = "returned"]
            [] step.next = "throw" ->
                 calls' = [calls EXCEPT ![c].thrown = step.error,
                                        ![c].pc = "threw"]
    /\ UNCHANGED <<side, resource, env, upstream, N, callsLeft, pc, offset,
                   allItems, requests, pages, last, thrown, caught, response,
                   settled, cache, now, ticks, history, input, output>>

\* Call c resumes after `await fetchAllPages(...)`: it maps the items,
\* stores them and returns, or catches and returns [].
RaceResume(c) ==
    /\ side = "race"
    /\ calls[c].pc \in {"returned", "threw"}
    /\ \E out \in {fetchOutcome(cache, calls[c].key, calls[c].pc,
                                calls[c].allItems, calls[c].thrown, now)} :
          /\ cache' = out.cache
          /\ calls' = [calls EXCEPT ![c].pc = "done",
                                    ![c].settled = out.settled,
                                    ![c].failed = out.caught # NoError,
                                    ![c].allItems = <<>>,
                                    ![c].endAt = NextEvent,
                                    ![c].endTime = now]
    /\ UNCHANGED <<side, resource, env, upstream, N, callsLeft, pc, offset,
                   allItems, requests, pages, last, thrown, caught, response,
                   settled, now, ticks, history, input, output>>

NextRace ==
    \/ \E c \in CallIds : RaceFetch(c, "monuments")
    \/ \E c \in CallIds : RaceFetch(c, "ecosystem")
    \/ \E c \in CallIds : RaceRespond(c)
    \/ \E c \in CallIds : RaceResume(c)
    \/ Tick

SpecRace == InitRace /\ [][NextRace]_vars


\* ------------------------------------------------------------------------
\* Claims
\* ------------------------------------------------------------------------

\* The concatenation of the item lists of a sequence of pages.
RECURSIVE Flatten(_)
Flatten(ps) ==
    IF ps = <<>> THEN <<>> ELSE Head(ps).items \o Flatten(Tail(ps))

\* The last response is a successful JSON body with an `items` list.
LastIsItemsPage ==
    /\ last.resp.kind = "http"
    /\ last.resp.ok
    /\ last.resp.body.shape = "items"

\* The last response is an `items` page that reports no total anywhere.
LastHasNoTotal ==
    /\ LastIsItemsPage
    /\ last.resp.body.pagination = Undefined
    /\ last.resp.body.total = Undefined

\* The request the last response answered is the latest one issued.
NoFurtherRequest ==
    /\ requests # <<>>
    /\ requests[Len(requests)].offset = last.offset

\* C1: when a sweep of either paginator returns, and every body received
\* carried its list in the `items` field, the returned list is the
\* concatenation of the received pages' item lists, in request order and
\* with each page's order unchanged.
C1_OrderPreserved ==
    (/\ pc = "returned"
     /\ \A i \in 1..Len(pages) : pages[i].shape = "items")
    => allItems = Flatten(pages)

\* A client sweep returned after three pages: two full ones and one item.
C1_Witness ==
    /\ side = "client"
    /\ pc = "returned"
    /\ Len(pages) = 3
    /\ \A i \in 1..Len(pages) : pages[i].shape = "items"
    /\ Len(allItems) = 2 * pageSize + 1

\* C2: after a successful page with no total, a page of exactly pageSize
\* items is followed by a request at the previous offset plus pageSize, and
\* a page of fewer items (zero included) by no request: the sweep returns.
C2_NoTotalContinuation ==
    LastHasNoTotal =>
        IF Len(last.resp.body.items) = pageSize
        THEN /\ pc = "await"
             /\ Len(requests) >= 2
             /\ requests[Len(requests) - 1].offset = last.offset
             /\ requests[Len(requests)].offset = last.offset + pageSize
        ELSE /\ pc \in {"returned", "done"}
             /\ NoFurtherRequest

\* A proxy sweep whose second full page with no total was followed by a
\* third request, at offset 200.
C2_Witness ==
    /\ side = "proxy"
    /\ pc = "await"
    /\ LastHasNoTotal
    /\ Len(last.resp.body.items) = pageSize
    /\ last.offset = pageSize
    /\ requests[Len(requests)].offset = 2 * pageSize


\* C3: in both paginators, a page that reports pagination.total with the
\* items collected so far (that page included) at or above it ends the
\* sweep: no further request is issued and the list is returned, even when
\* the page is full.
C3_PaginationTotalStops ==
    (/\ LastIsItemsPage
     /\ NotNullish(last.resp.body.pagination)
     /\ last.collected + Len(last.resp.body.items)
           >= last.resp.body.pagination.m)
    => /\ pc \in {"returned", "done"}
       /\ NoFurtherRequest

\* C4: against the finite upstream of N items the sweep never issues more
\* than N \div 100 + 1 requests, is never held up, never throws, and returns
\* exactly the N items in upstream order after exactly N \div 100 + 1
\* requests.
C4_FiniteSweep ==
    /\ Len(requests) <= N \div pageSize + 1
    /\ pc = "await" => ENABLED Respond
    /\ pc # "threw"
    /\ pc = "returned" =>
          /\ allItems = PageItems(0, N, "flat")
          /\ Len(requests) = N \div pageSize + 1

\* Pages of 100, 100 and 37 items: 3 requests, 237 items.
C4_Witness ==
    /\ N = 237
    /\ pc = "returned"
    /\ Len(requests) = 3
    /\ Len(allItems) = 237
    /\ [i \in 1..Len(pages) |-> Len(pages[i].items)] = <<100, 100, 37>>

\* C5: a fetchMonuments / fetchEcosystem call skips the producer exactly
\* when the cache holds an entry for its key with
\* now - timestamp < 5 minutes, and then resolves to the stored list.
C5_CacheHitIffFresh ==
    history.key # "none" =>
        /\ ~history.ran <=>
              (/\ history.had
               /\ history.time - history.timestamp < 5 * 60 * 1000)
        /\ ~history.ran =>
              /\ pc = "done"
              /\ settled = Fulfilled(cache[history.key].data)

\* A call one millisecond inside the window is served from the cache.
C5_Witness ==
    /\ history.key # "none"
    /\ history.had
    /\ history.time - history.timestamp = 5 * 60 * 1000 - 1
    /\ ~history.ran
    /\ pc = "done"

\* The producer of the current call failed: the sweep threw, or the item
\* mapping did.
ProducerFails ==
    /\ side = "client"
    /\ \/ pc = "threw"
       \/ /\ pc = "returned"
          /\ \E i \in 1..Len(allItems) : allItems[i].shape = "numeric"

\* C6 as stated: when the producer fails, the call rejects with the failure
\* and the cache is left as it was.
C6_FailurePropagates ==
    [][(ProducerFails /\ pc' = "done")
         => (settled'.state = "rejected" /\ cache' = cache)]_vars

\* C6 as amended: when the producer fails, the call resolves to the empty
\* list, the failure is only logged, and the cache is left as it was.
C6_FailureSwallowedNoWrite ==
    [][(ProducerFails /\ pc' = "done")
         => /\ settled' = Fulfilled(Arr(<<>>))
            /\ caught' # NoError
            /\ cache' = cache]_vars

\* A call failed while a stale entry for its key was stored; the entry is
\* still there.
C6_Witness ==
    /\ pc = "done"
    /\ caught # NoError
    /\ settled = Fulfilled(Arr(<<>>))
    /\ history.ran
    /\ history.had
    /\ history.key \in DOMAIN cache
    /\ cache[history.key].timestamp = history.timestamp

\* The last response is a non-success HTTP status.
LastIsHttpError ==
    /\ last.resp.kind = "http"
    /\ ~last.resp.ok

\* C7 as stated: in both paginators the error of a non-success response
\* carries the status code and the body text, and no list is returned.
C7_ErrorCarriesStatusAndBody ==
    (LastIsHttpError /\ pc = "threw")
    => /\ thrown.status = last.resp.status
       /\ "body" \in DOMAIN thrown
       /\ thrown.body = last.resp.text

\* C7 as amended: a non-success response on any page makes the sweep throw
\* and return no list; the error of fetchAllCollectionItems carries the
\* status code and the body text, the error of fetchAllPages the status
\* code alone.
C7_ErrorPerPaginator ==
    LastIsHttpError =>
        /\ pc \in {"threw", "done"}
        /\ thrown.name = "Error"
        /\ thrown.status = last.resp.status
        /\ side = "proxy" =>
              ("body" \in DOMAIN thrown /\ thrown.body = last.resp.text)
        /\ side = "client" => "body" \notin DOMAIN thrown
        /\ response.status # 200
        /\ settled = Pending

\* The second page of a client sweep was answered 404 with a body text.
C7_Witness ==
    /\ side = "client"
    /\ pc = "threw"
    /\ LastIsHttpError
    /\ last.offset = pageSize
    /\ last.resp.status = 404
    /\ last.resp.text # ""
    /\ thrown.status = 404

\* The token or the collection identifier is absent or empty.
CredentialMissing ==
    \/ env.WEBFLOW_API_TOKEN \in {Undefined, Str(<<>>)}
    \/ env.COLLECTION_ID \in {Undefined, Str(<<>>)}

\* C8: a route handler whose token or collection identifier is missing
\* issues no upstream request and answers 500 with the fixed body.
C8_MissingCredentials ==
    (side = "proxy" /\ CredentialMissing)
    => /\ requests = <<>>
       /\ pc \in {"init", "done"}
       /\ pc = "done" =>
             response = [status |-> 500,
                         body |-> [error |-> "Missing API credentials"]]

\* The token is set, the collection identifier is empty.
C8_Witness ==
    /\ side = "proxy"
    /\ pc = "done"
    /\ Truthy(env.WEBFLOW_API_TOKEN)
    /\ env.COLLECTION_ID = Str(<<>>)
    /\ response.status = 500
    /\ requests = <<>>

\* The fixed failure message of a route.
FixedMessage ==
    IF resource = "monuments" THEN "Failed to fetch monuments"
    ELSE "Failed to fetch ecosystem"

\* C9: with credentials present a route handler always goes on to answer
\* once the sweep has settled; it answers 200 {items} exactly when the
\* sweep returned, and otherwise 500 with the route's one fixed message,
\* whatever the cause.
C9_RouteAlwaysResponds ==
    (side = "proxy" /\ ~CredentialMissing)
    => /\ pc \in {"returned", "threw"} => ENABLED GETResume
       /\ pc = "done" =>
             IF thrown = NoError
             THEN response = [status |-> 200, body |-> [items |-> allItems]]
             ELSE /\ response = [status |-> 500,
                                 body |-> [error |-> FixedMessage]]
                  /\ caught = thrown

\* An upstream 404 with a body text on the second page became the fixed
\* 500 of the ecosystem route.
C9_Witness ==
    /\ side = "proxy"
    /\ resource = "ecosystem"
    /\ pc = "done"
    /\ LastIsHttpError
    /\ last.resp.text # ""
    /\ last.offset = PAGE_SIZE
    /\ response.status = 500
    /\ response.body.error = "Failed to fetch ecosystem"

\* C10: the item mapping never throws, whatever JSON values the fields of
\* the raw item hold.
C10_NormalizationNeverFails ==
    (side = "norm" /\ pc = "done") => output.t # "throw"

\* A helper has been called on `input` and has left its result in `output`.
HelperDone(helper) == side = "helper" /\ resource = helper /\ pc = "done"

\* The string is "<lat>,<lng>": exactly one ',', and the text on each side
\* of it parses as a number.
IsLatLng(s) ==
    /\ Cardinality({i \in 1..Len(s) : s[i] = ","}) = 1
    /\ LET c == CHOOSE i \in 1..Len(s) : s[i] = ","
       IN /\ ~isNaN(parseFloat(Trim(SubSeq(s, 1, c - 1))))
          /\ ~isNaN(parseFloat(Trim(SubSeq(s, c + 1, Len(s)))))

LatLng(s) ==
    LET c == CHOOSE i \in 1..Len(s) : s[i] = ","
    IN Arr(<<parseFloat(Trim(SubSeq(s, 1, c - 1))),
             parseFloat(Trim(SubSeq(s, c + 1, Len(s))))>>)

\* The input is one of the names of the static table.
IsKnownLocation(v) == IsString(v) /\ \E row \in commonLocations : row.key = v.s

\* C11: parseCoordinates returns a two-element array unchanged, the pair of
\* parsed numbers for a "<lat>,<lng>" string, and for every other input the
\* table's pair when the input is a known location name and null otherwise.
C11_ParseCoordinatesContract ==
    HelperDone("parseCoordinates") =>
        output = IF IsArray(input) /\ Len(input.a) = 2 THEN input
                 ELSE IF IsString(input) /\ IsLatLng(input.s)
                      THEN LatLng(input.s)
                 ELSE IF IsKnownLocation(input)
                      THEN (CHOOSE row \in commonLocations :
                                row.key = input.s).value
                 ELSE Null

\* The positions that bound the pieces of s: before its first character,
\* at each ',', and after its last character.
Cuts(s) == {0, Len(s) + 1} \cup {i \in 1..Len(s) : s[i] = ","}

\* The k-th cut, counting from the left.
NthCut(s, k) ==
    CHOOSE c \in Cuts(s) : Cardinality({d \in Cuts(s) : d < c}) = k - 1

\* The text between consecutive cuts, trimmed, in order, without the
\* pieces that are empty after trimming.
TagPieces(s) ==
    LET pieces == [k \in 1..(Cardinality(Cuts(s)) - 1) |->
                     Trim(SubSeq(s, NthCut(s, k) + 1, NthCut(s, k + 1) - 1))]
        kept == SelectSeq(pieces, LAMBDA q : q # <<>>)
    IN [i \in 1..Len(kept) |-> Str(kept[i])]

ABC == <<Str(<<"a">>), Str(<<"b">>), Str(<<"c">>)>>

\* C12: parseTags returns an array unchanged; splits a string on ',',
\* trims each piece and drops the empty ones, keeping the order ("a, b ,c"
\* gives ["a","b","c"]); and returns an empty array for any other input,
\* undefined included.
C12_ParseTagsContract ==
    HelperDone("parseTags") =>
        /\ output = IF IsArray(input) THEN input
                    ELSE IF IsString(input) THEN Arr(TagPieces(input.s))
                    ELSE Arr(<<>>)
        /\ input = Str(<<"a", ",", " ", "b", " ", ",", "c">>)
              => output = Arr(ABC)
        /\ input = Undefined => output = Arr(<<>>)

\* parseTags has split, trimmed and filtered the string "a, b ,c".
C12_Witness ==
    /\ HelperDone("parseTags")
    /\ input = Str(<<"a", ",", " ", "b", " ", ",", "c">>)
    /\ output = Arr(ABC)

\* Position i of s lies in a '<...>' span: some '<' at or before i has no
\* '>' between itself and i, and a '>' at i or later closes it.
InTag(s, i) ==
    \E j \in 1..i :
        /\ s[j] = "<"
        /\ \A k \in j..(i - 1) : s[k] # ">"
        /\ \E c \in i..Len(s) : c > j /\ s[c] = ">"

\* The characters of s outside every '<...>' span, in order.
OutsideTags(s) ==
    LET keep == {i \in 1..Len(s) : ~InTag(s, i)}
        nth(k) == CHOOSE i \in keep : Cardinality({d \in keep : d < i}) = k - 1
    IN [k \in 1..Cardinality(keep) |-> s[nth(k)]]

\* The string holds tag markup: a '<' with a '>' somewhere after it.
HasTag(s) == \E i \in 1..Len(s) : s[i] = "<" /\ \E j \in (i + 1)..Len(s) : s[j] = ">"

\* The string starts or ends with white space.
HasOuterSpace(s) ==
    s # <<>> /\ (s[1] \in WhiteSpace \/ s[Len(s)] \in WhiteSpace)

HiThere == <<"H", "i", " ", "t", "h", "e", "r", "e">>

\* C13: for a string, stripHtml's result holds no tag markup, has no
\* leading or trailing white space and is the characters outside the
\* removed '<...>' spans in order (up to that trimming); empty or absent
\* input gives the empty string; stripHtml of the result is the result.
C13_StripHtmlContract ==
    HelperDone("stripHtml") =>
        /\ IsString(output)
        /\ IsString(input) =>
              /\ ~HasTag(output.s)
              /\ ~HasOuterSpace(output.s)
              /\ output.s = Trim(OutsideTags(input.s))
        /\ input \in {Undefined, Null, Str(<<>>)} => output = Str(<<>>)
        /\ stripHtml(output) = output

\* stripHtml has removed the tags of "<p>Hi <b>there</b></p>".
C13_Witness ==
    /\ HelperDone("stripHtml")
    /\ IsString(input)
    /\ HasTag(input.s)
    /\ Len(input.s) > MaxLen
    /\ output = Str(HiThere)

\* A paginator is (or was) sweeping.
Sweeping == side \in {"proxy", "client"} /\ requests # <<>>

\* A request was issued after the last response arrived.
FurtherRequest ==
    /\ Sweeping
    /\ last # NoLast
    /\ requests[Len(requests)].offset # last.offset

\* The last response is a non-success status or a failed request.
LastIsFailure ==
    \/ last.resp.kind = "network"
    \/ last.resp.kind = "http" /\ ~last.resp.ok

\* The last response is a page that meets one of the three termination
\* conditions: no items; pagination.total reached by the items collected
\* with this page; fewer items than the page size.
LastMeetsTermination ==
    /\ LastIsItemsPage
    /\ \/ Len(last.resp.body.items) = 0
       \/ /\ NotNullish(last.resp.body.pagination)
          /\ last.collected + Len(last.resp.body.items)
                >= last.resp.body.pagination.m
       \/ Len(last.resp.body.items) < pageSize

\* C14: within one sweep of either paginator the i-th request (from 0)
\* carries offset i*100 and limit 100, so no offset is requested twice; at
\* most one request is unanswered at any time; and no request is issued
\* after a response that is a non-success status or that meets a
\* termination condition.
C14_SequentialNoRetry ==
    Sweeping =>
        /\ \A i \in 1..Len(requests) :
              requests[i] = [offset |-> (i - 1) * pageSize,
                             limit |-> pageSize]
        /\ IF pc = "await"
           THEN IF Len(requests) = 1 THEN last = NoLast
                ELSE last.offset = requests[Len(requests) - 1].offset
           ELSE last.offset = requests[Len(requests)].offset
        /\ FurtherRequest => ~LastIsFailure /\ ~LastMeetsTermination

\* Calls a and b are for the same key, a began first, and b read the cache
\* before a had finished (so before a could have stored anything).
Overlapping(a, b) ==
    /\ a # b
    /\ calls[a].pc # "idle"
    /\ calls[b].pc # "idle"
    /\ calls[a].key = calls[b].key
    /\ calls[a].startAt < calls[b].startAt
    /\ calls[a].pc = "done" => calls[b].startAt < calls[a].endAt

\* The cache entry a finished call stores when it succeeds.
EntryOf(c) == [data |-> calls[c].settled.value,
               timestamp |-> calls[c].endTime]

\* The calls among a and b that have finished without a failure.
Stored(a, b) == {c \in {a, b} : calls[c].pc = "done" /\ ~calls[c].failed}

\* C15: two overlapping calls for one key both read a miss and both run
\* the sweep (no single-flight de-duplication); each that succeeds writes
\* the entry, and the entry in the cache is the one of the successful
\* call that finished last.
C15_NoSingleFlight ==
    \A a, b \in CallIds :
        (side = "race" /\ Overlapping(a, b)) =>
            /\ calls[a].nreq >= 1
            /\ calls[b].nreq >= 1
            /\ IF Stored(a, b) = {} THEN calls[a].key \notin DOMAIN cache
               ELSE LET latest == CHOOSE c \in Stored(a, b) :
                                     \A d \in Stored(a, b) :
                                         calls[d].endAt <= calls[c].endAt
                    IN /\ calls[a].key \in DOMAIN cache
                       /\ cache[calls[a].key] = EntryOf(latest)

\* Two overlapping fetchMonuments calls both succeeded with different
\* lists; the entry of the one that finished first has been overwritten.
C15_Witness ==
    \E a, b \in CallIds :
        /\ side = "race"
        /\ Overlapping(a, b)
        /\ calls[a].key = "monuments"
        /\ Stored(a, b) = {a, b}
        /\ calls[b].endAt < calls[a].endAt
        /\ EntryOf(a) # EntryOf(b)
        /\ cache["monuments"] = EntryOf(a)

\* The last response is a successful body that holds an item list: under
\* `items`, or as the bare list the body is.
LastHoldsList ==
    /\ Sweeping
    /\ last.resp.kind = "http"
    /\ last.resp.ok
    /\ last.resp.body.shape \in {"items", "list"}

\* C16: in both paginators the item list of a successful page body is its
\* `items` field when it has one, and the body itself when the body has no
\* `items` and is a list: those items are appended to the collected ones,
\* and for a bare list an empty or short page ends the sweep while a full
\* page is followed by the next request.
C16_TolerantExtraction ==
    (LastHoldsList /\ pc # "threw") =>
        /\ Len(allItems) = last.collected + Len(last.resp.body.items)
        /\ SubSeq(allItems, last.collected + 1, Len(allItems))
              = last.resp.body.items
        /\ last.resp.body.shape = "list" =>
              (FurtherRequest <=> Len(last.resp.body.items) = pageSize)

\* C17: no step of WebflowCMS removes a cache entry: the set of keys never
\* shrinks, and an entry (an expired one included) stays exactly as stored
\* until a successful fetch for the same key overwrites it.
C17_CacheNeverShrinks ==
    [][/\ DOMAIN cache \subseteq DOMAIN cache'
       /\ \A k \in DOMAIN cache :
             cache'[k] # cache[k] =>
                 /\ pc = "returned"
                 /\ pc' = "done"
                 /\ resource = k
                 /\ caught' = NoError
                 /\ settled'.state = "fulfilled"
                 /\ cache'[k] = [data |-> settled'.value,
                                 timestamp |-> now]]_vars

\* An expired entry was skipped on read, stayed stored during the sweep,
\* and has now been overwritten by the successful fetch.
C17_Witness ==
    /\ side = "client"
    /\ pc = "done"
    /\ history.had
    /\ history.ran
    /\ history.time - history.timestamp >= cacheExpiry
    /\ caught = NoError
    /\ history.key \in DOMAIN cache
    /\ cache[history.key].timestamp = history.time

\* C18: when fetchAllPages sweeps the proxy's route, which answers every
\* request with the whole list of N items, the sweep terminates and returns
\* each of the N items exactly once, for N >= 100 too: the sweep never
\* holds more than the N items (none is collected twice), and the list it
\* returns is the N items.
C18_ComposedSweepEachItemOnce ==
    (side = "client" /\ upstream = "route") =>
        /\ Len(allItems) <= N
        /\ pc = "returned" => allItems = PageItems(0, N, "flat")

\* C19: fetchMonuments and fetchEcosystem never reject: every call that
\* finishes resolves to a list. When the sweep or the item mapping fails
\* the call resolves to the empty list and the cache map is unchanged. The
\* cache is written only by the resumption of a call whose sweep returned
\* and whose items were all mapped, and that write touches the call's own
\* key only.
C19_NeverRejectsFrame ==
    [][/\ settled'.state # "rejected"
       /\ (pc # "done" /\ pc' = "done") =>
             /\ settled'.state = "fulfilled"
             /\ settled'.value.t = "arr"
       /\ (ProducerFails /\ pc' = "done") =>
             /\ settled'.value = Arr(<<>>)
             /\ cache' = cache
       /\ cache' # cache =>
             /\ pc = "returned"
             /\ pc' = "done"
             /\ ~ProducerFails
             /\ settled'.value = MapItems(resource, allItems)
             /\ DOMAIN cache' = DOMAIN cache \cup {resource}
             /\ \A k \in DOMAIN cache : k # resource => cache'[k] = cache[k]
      ]_vars

\* A fetchEcosystem call failed while an entry for monuments was stored:
\* no ecosystem key was added and the monuments entry is as it was.
C19_Witness ==
    /\ side = "client"
    /\ pc = "done"
    /\ history.key = "ecosystem"
    /\ history.ran
    /\ caught # NoError
    /\ settled = Fulfilled(Arr(<<>>))
    /\ DOMAIN cache = {"monuments"}
    /\ cache["monuments"].timestamp < now


====
